---------------------------- MODULE Spec2Model ----------------------------
(***************************************************************************)
(* Model of bitfinex/rest/restv2.py: the REST v2 client's request          *)
(* authentication (nonce, signature, signed headers), its two transport    *)
(* methods _get and _post, and the response normalisation both share.      *)
(*                                                                         *)
(* Text (Python str) is a sequence of tokens, so that concatenation is     *)
(* \o and a parser has something to parse.  The wall clock is an integer   *)
(* number of clock ticks; nonce multipliers are floats of integral value.  *)
(***************************************************************************)
EXTENDS Integers, Sequences, FiniteSets, TLC

(* ------------------------------ bounds --------------------------------- *)

\* First value of the wall clock (two digits once it has ticked).
StartTime == 9
\* How many times the wall clock advances.
MaxTicks == 2
\* How many calls the caller makes on the client.
MaxCalls == 2

(* ----------------------- module level constants ------------------------ *)

PROTOCOL == <<"https">>
HOST == <<"api.bitfinex.com">>
TIMEOUT == 5

\* Python's None where a str is expected, and an unset text-valued local.
None == "None"
Unset == <<>>

(* --------------------------- inputs ------------------------------------ *)

\* Arguments of Client(key, secret, nonce_multiplier).  A multiplier is
\* [float |-> is it a float, val |-> its (integral) value].
Keys == {None, "key"}
Secrets == {None, "abc"}
Multipliers ==
    {[float |-> TRUE, val |-> v] : v \in {-1, 0, 1, 2}}
        \cup {[float |-> FALSE, val |-> 2]}

\* Paths a caller hands to _get and _post directly.
GetPaths == {<<"v2/tickers">>}
PostPaths == {<<"v2/auth/r/alerts">>}
\* Query parameters of a _get call (**params).
ParamSets == {<<>>, <<"limit=1">>}
\* Raw bodies a caller hands to _post directly.
Payloads == {<<"{", "}">>, <<"{", "\"", "type", "\"", ":", "\"", "price", "\"", "}">>}
\* Symbols of the ticker endpoint and keyword arguments of the calculation
\* endpoint (a Python dict is a sequence of <<key, value>> pairs).
Symbols == {<<"tBTCUSD">>}
Kwargs == {<<>>, << <<"symbol", "tBTCUSD">> >>}
\* Currencies of movements and ledgers.
Currencies == {<<"btc">>}
\* Calls of the other posting endpoint methods: [name, args, kwargs], an
\* omitted optional argument being its default.
PostEndpointCalls ==
    {[name |-> n, args |-> <<>>, kwargs |-> <<>>] :
        n \in {"active_positions", "alert_list"}}
    \cup {[name |-> "foreign_exchange_rate", args |-> <<>>, kwargs |-> k] :
            k \in Kwargs \ {<<>>}}
    \cup {[name |-> "active_orders", args |-> <<a>>, kwargs |-> <<>>] :
            a \in Symbols \cup {<<>>}}
    \cup {[name |-> n, args |-> << <<>> >>, kwargs |-> <<>>] :
            n \in {"funding_offers", "funding_loans", "funding_credits"}}
    \cup {[name |-> "movements", args |-> <<a>>, kwargs |-> <<>>] :
            a \in Currencies \cup {<<>>}}
    \cup {[name |-> "ledgers", args |-> <<a>>, kwargs |-> <<>>] : a \in Currencies}
    \cup {[name |-> "margin_info", args |-> << <<"base">> >>, kwargs |-> <<>>]}
    \cup {[name |-> "performance", args |-> << <<"1D">> >>, kwargs |-> <<>>]}
    \cup {[name |-> "funding_info", args |-> <<a>>, kwargs |-> <<>>] : a \in Symbols}
    \cup {[name |-> n, args |-> <<a>>, kwargs |-> k] :
            n \in {"orders_history", "trades_history"},
            a \in Symbols, k \in Kwargs \ {<<>>}}
    \cup {[name |-> n, args |-> << <<>> >>, kwargs |-> <<>>] :
            n \in {"funding_offers_history", "funding_loans_history",
                   "funding_credits_history", "funding_trades"}}
    \cup {[name |-> "funding_trades", args |-> <<a>>, kwargs |-> k] :
            a \in Symbols, k \in Kwargs \ {<<>>}}
    \cup {[name |-> n, args |-> <<a, <<"1">> >>, kwargs |-> <<>>] :
            n \in {"order_trades", "alert_delete"}, a \in Symbols}
    \cup {[name |-> "alert_set", args |-> << <<"price">>, a, <<"1">> >>, kwargs |-> <<>>] :
            a \in Symbols}
    \cup {[name |-> "calc_available_balance",
           args |-> <<a, <<"1">>, <<"1.13">>, <<"EXCHANGE">> >>, kwargs |-> <<>>] :
            a \in Symbols}
    \cup {[name |-> "user_settings_read", args |-> << <<"a">> >>, kwargs |-> <<>>]}

\* Keyword arguments _post does not declare, which a caller may still pass.
NoKeyword == "none"
ExtraKeywords == {NoKeyword, "signed=False"}

\* What the exchange may answer.
Statuses == {200, 500}
Reasons == {"OK", "Internal Server Error"}
Bodies ==
    { <<"[", "\"", "1", "\"", "]">>,
      <<"{", "\"", "error", "\"", ":", "\"", "nope", "\"", "}">>,
      <<"1">>,
      <<"\"", "oops", "\"">>,
      <<"[", "]">>,
      <<"oops">>,
      <<>>,
      <<"[", "\"", "1", "\"">> }
Responses == [status : Statuses, reason : Reasons, body : Bodies]
NoResponse == [status |-> 0, reason |-> "", body |-> <<>>]

(* ------------------------- str(float) and back ------------------------- *)

DigitChars == <<"0", "1", "2", "3", "4", "5", "6", "7", "8", "9">>

RECURSIVE Digits(_)
\* The decimal digits of a natural number.
Digits(n) ==
    IF n < 10 THEN <<DigitChars[n + 1]>>
    ELSE Digits(n \div 10) \o <<DigitChars[(n % 10) + 1]>>

\* str(x) of a float x of integral value v: "18.0", "-9.0".
StrFloat(v) ==
    (IF v < 0 THEN <<"-">> ELSE <<>>) \o Digits(IF v < 0 THEN -v ELSE v) \o <<".", "0">>

DigitVal(c) == CHOOSE d \in 0..9 : DigitChars[d + 1] = c

RECURSIVE DigitsVal(_)
DigitsVal(s) ==
    IF s = <<>> THEN 0
    ELSE 10 * DigitsVal(SubSeq(s, 1, Len(s) - 1)) + DigitVal(s[Len(s)])

\* The number the exchange reads from a nonce header "d...d.0" or "-d...d.0".
NonceValue(s) ==
    LET neg == s # <<>> /\ s[1] = "-"
        body == IF neg THEN Tail(s) ELSE s
        int == SubSeq(body, 1, Len(body) - 2)
    IN  IF neg THEN 0 - DigitsVal(int) ELSE DigitsVal(int)

(* ------------------------------ json ----------------------------------- *)

\* Python values: [num |-> n], [str |-> text], [arr |-> <<v, ...>>],
\* [obj |-> << <<key, v>>, ... >>].
PyStr(text) == [str |-> text]

NumberWords == {"0", "1"}
Punctuation == {"[", "]", "{", "}", ":", ",", "\""}

ParseFail == [ok |-> FALSE, val |-> [num |-> 0], next |-> 0]

RECURSIVE ParseString(_, _, _)
\* After an opening quote at i - 1: words up to the closing quote.
ParseString(t, i, acc) ==
    IF i > Len(t) THEN ParseFail
    ELSE IF t[i] = "\"" THEN [ok |-> TRUE, val |-> PyStr(acc), next |-> i + 1]
    ELSE IF t[i] \in Punctuation THEN ParseFail
    ELSE ParseString(t, i + 1, Append(acc, t[i]))

RECURSIVE ParseValue(_, _)
RECURSIVE ParseElements(_, _, _)
RECURSIVE ParseMembers(_, _, _)

ParseValue(t, i) ==
    IF i > Len(t) THEN ParseFail
    ELSE IF t[i] = "[" THEN
        IF i + 1 <= Len(t) /\ t[i + 1] = "]"
        THEN [ok |-> TRUE, val |-> [arr |-> <<>>], next |-> i + 2]
        ELSE ParseElements(t, i + 1, <<>>)
    ELSE IF t[i] = "{" THEN
        IF i + 1 <= Len(t) /\ t[i + 1] = "}"
        THEN [ok |-> TRUE, val |-> [obj |-> <<>>], next |-> i + 2]
        ELSE ParseMembers(t, i + 1, <<>>)
    ELSE IF t[i] = "\"" THEN ParseString(t, i + 1, <<>>)
    ELSE IF t[i] \in NumberWords THEN
        [ok |-> TRUE, val |-> [num |-> DigitVal(t[i])], next |-> i + 1]
    ELSE ParseFail

\* value ("," value)* "]"
ParseElements(t, i, acc) ==
    LET v == ParseValue(t, i)
    IN  IF ~v.ok \/ v.next > Len(t) THEN ParseFail
        ELSE IF t[v.next] = "]"
        THEN [ok |-> TRUE, val |-> [arr |-> Append(acc, v.val)], next |-> v.next + 1]
        ELSE IF t[v.next] = ","
        THEN ParseElements(t, v.next + 1, Append(acc, v.val))
        ELSE ParseFail

\* string ":" value ("," string ":" value)* "}"
ParseMembers(t, i, acc) ==
    LET k == IF i <= Len(t) /\ t[i] = "\"" THEN ParseString(t, i + 1, <<>>) ELSE ParseFail
        v == IF k.ok /\ k.next <= Len(t) /\ t[k.next] = ":"
             THEN ParseValue(t, k.next + 1) ELSE ParseFail
    IN  IF ~v.ok \/ v.next > Len(t) THEN ParseFail
        ELSE IF t[v.next] = "}"
        THEN [ok |-> TRUE, val |-> [obj |-> Append(acc, <<k.val, v.val>>)],
              next |-> v.next + 1]
        ELSE IF t[v.next] = ","
        THEN ParseMembers(t, v.next + 1, Append(acc, <<k.val, v.val>>))
        ELSE ParseFail

\* response.json(): the parsed body, or a JSONDecodeError (ok = FALSE) when the
\* body is no JSON document or text follows the document.
Json(body) ==
    LET r == ParseValue(body, 1)
    IN  IF r.ok /\ r.next = Len(body) + 1
        THEN [ok |-> TRUE, val |-> r.val]
        ELSE [ok |-> FALSE, val |-> [num |-> 0]]

RECURSIVE DumpsPairs(_)
DumpsPairs(d) ==
    IF d = <<>> THEN <<>>
    ELSE <<"\"", d[1][1], "\"", ":", "\"", d[1][2], "\"">>
             \o (IF Len(d) > 1 THEN <<",">> ELSE <<>>) \o DumpsPairs(Tail(d))

\* json.dumps(body) of a dict of str to str.  White space between tokens
\* (json.dumps writes ", " and ": ") is not a token.
JsonDumps(d) == <<"{">> \o DumpsPairs(d) \o <<"}">>

(* ------------------------- python values ------------------------------- *)

PyNone == [none |-> TRUE]

\* How a call ends: it returns a value or raises an exception.  A
\* BitfinexException carries (status, reason, content).
NoOutcome == [kind |-> "none", exc |-> "", status |-> 0, reason |-> "", content |-> PyNone]
Returned(v) == [kind |-> "return", exc |-> "", status |-> 0, reason |-> "", content |-> v]
Raised(e) == [kind |-> "raise", exc |-> e, status |-> 0, reason |-> "", content |-> PyNone]
BitfinexException(status, reason, content) ==
    [kind |-> "raise", exc |-> "BitfinexException",
     status |-> status, reason |-> reason, content |-> content]

\* str.encode('utf8') and the hex digest of an HMAC-SHA384: bytes are a tagged
\* copy of the text, the digest an uninterpreted function of key and message.
Utf8(text) == [utf8 |-> text]
HmacSha384Hex(keyBytes, msgBytes) == [hmac_sha384_hex |-> <<keyBytes, msgBytes>>]

NoHeaders == [h \in {} |-> <<>>]
NoRequest ==
    [method |-> "", url |-> <<>>, headers |-> NoHeaders, data |-> <<>>,
     params |-> <<>>, verify |-> FALSE, timeout |-> <<>>]

(* ------------------------------ state ---------------------------------- *)

VARIABLES
    constructed,        \* Client(...) returned an object
    base_url, key, secret, nonce_multiplier,    \* the client's fields
    clock,              \* time.time(), in clock ticks
    calls,              \* calls made on the client so far
    pc,                 \* where the current call stands
    entry,              \* the method the caller called
    path, payload, params, verify,      \* arguments of _get / _post
    keyword,            \* an undeclared keyword argument handed to _post
    nonce, headers,     \* locals of _post
    wire,               \* the request handed to requests.get / requests.post
    response,           \* the response requests handed back
    inner,              \* how _get / _post ended
    result,             \* how the call ended for the caller
    nonceGen,           \* _nonce calls in the current call
    hdrBuilt,           \* header sets completed in the current call
    httpCount,          \* HTTP requests issued in the current call
    sentNonces          \* bfx-nonce of every POST issued, oldest first

clientVars == <<constructed, base_url, key, secret, nonce_multiplier>>
frameVars == <<entry, path, payload, params, verify, keyword>>
vars == <<clientVars, clock, calls, pc, frameVars, nonce, headers, wire, response,
          inner, result, nonceGen, hdrBuilt, httpCount, sentNonces>>

DirectEntries == {"_get", "_post"}
GetEntries == {"_get", "platform_status", "ticker"}
\* The endpoint methods that post, other than market_average_price and
\* wallets_balance, by the shape of their arguments.
NoArgEndpoints == {"active_positions", "alert_list"}
SymbolEndpoints == {"active_orders", "funding_offers", "funding_loans", "funding_credits"}
CurrencyEndpoints == {"movements", "ledgers"}
HistoryEndpoints == {"orders_history", "trades_history"}
SymbolHistoryEndpoints ==
    {"funding_offers_history", "funding_loans_history", "funding_credits_history",
     "funding_trades"}
OtherPostEndpoints ==
    NoArgEndpoints \cup SymbolEndpoints \cup CurrencyEndpoints \cup HistoryEndpoints
        \cup SymbolHistoryEndpoints
        \cup {"foreign_exchange_rate", "margin_info", "funding_info", "performance",
              "order_trades", "alert_set", "alert_delete", "calc_available_balance",
              "user_settings_read"}
PostEntries == {"_post", "market_average_price", "wallets_balance"} \cup OtherPostEndpoints

(* --------------------------- Client.__init__ --------------------------- *)

\* Variant: the constructor takes any multiplier.
MultiplierAccepted_Any(m) == TRUE

\* assert isinstance(nonce_multiplier, float)
MultiplierAccepted(m) == m.float

Init ==
    \E k \in Keys, s \in Secrets, m \in Multipliers :
        /\ constructed = MultiplierAccepted(m)
        /\ base_url = IF MultiplierAccepted(m) THEN PROTOCOL \o <<"://">> \o HOST \o <<"/">>
                      ELSE <<>>
        /\ key = IF MultiplierAccepted(m) THEN k ELSE None
        /\ secret = IF MultiplierAccepted(m) THEN s ELSE None
        /\ nonce_multiplier = IF MultiplierAccepted(m) THEN m ELSE [float |-> FALSE, val |-> 0]
        /\ clock = StartTime
        /\ calls = 0
        /\ pc = "idle"
        /\ entry = ""
        /\ path = <<>>
        /\ payload = <<>>
        /\ params = <<>>
        /\ verify = FALSE
        /\ keyword = NoKeyword
        /\ nonce = Unset
        /\ headers = NoHeaders
        /\ wire = NoRequest
        /\ response = NoResponse
        /\ inner = NoOutcome
        /\ result = NoOutcome
        /\ nonceGen = 0
        /\ hdrBuilt = 0
        /\ httpCount = 0
        /\ sentNonces = <<>>

(* ------------------------------ Signer --------------------------------- *)

\* _nonce: str(float(time.time()) * self.nonce_multiplier)
Nonce == StrFloat(clock * nonce_multiplier.val)

\* Variant: the body is put before the nonce in the signing string.
SigningString_BodyFirst(p, n, body) == <<"/api/">> \o p \o body \o n

\* "/api/{}{}{}".format(path, nonce, body)
SigningString(p, n, body) == <<"/api/">> \o p \o n \o body

\* Variant: a missing secret is signed with as if it were a str.
CanSign_Always == TRUE

\* self.secret.encode('utf8') raises AttributeError on None.
CanSign == secret # None

\* _headers(path, nonce, body)
SignedHeaders(p, n, body) ==
    ("bfx-nonce" :> n) @@
    ("bfx-apikey" :> key) @@
    ("bfx-signature" :> HmacSha384Hex(Utf8(secret), Utf8(SigningString(p, n, body)))) @@
    ("content-type" :> "application/json")

(* ----------------------------- Transport ------------------------------- *)

\* Variant: the POST leaves without the headers built for it.
PostRequest_NoHeaders(url, hdrs, data, v) ==
    [method |-> "POST", url |-> url, headers |-> NoHeaders, data |-> data,
     params |-> <<>>, verify |-> v, timeout |-> <<>>]

\* requests.post(self.base_url + path, headers=headers, data=payload, verify=verify)
PostRequest(url, hdrs, data, v) ==
    [method |-> "POST", url |-> url, headers |-> hdrs, data |-> data,
     params |-> <<>>, verify |-> v, timeout |-> <<>>]

\* Variant: the GET is signed like a POST.
GetRequest_Signed(url, q) ==
    [method |-> "GET", url |-> url, headers |-> SignedHeaders(path, Nonce, <<>>),
     data |-> <<>>, params |-> q, verify |-> TRUE, timeout |-> <<TIMEOUT>>]

\* requests.get(url, timeout=TIMEOUT, params=params)
GetRequest(url, q) ==
    [method |-> "GET", url |-> url, headers |-> NoHeaders, data |-> <<>>,
     params |-> q, verify |-> TRUE, timeout |-> <<TIMEOUT>>]

\* What requests raises instead of returning a response.  A read timeout
\* needs a timeout to have been set.
TransportErrors(req) ==
    {"ConnectionError"} \cup (IF req.timeout # <<>> THEN {"Timeout"} ELSE {})

\* Variant: the transport's exception is caught and wrapped.
TransportOutcome_Wrapped(e) == BitfinexException(0, e, PyNone)

\* The transport's exception is not caught: it leaves _get / _post as raised.
TransportOutcome(e) == Raised(e)

(* ------------------------- Response Normalizer ------------------------- *)

\* response.text(): Response.text is a str property, so the call raises
\* TypeError ('str' object is not callable) instead of giving the text.
ResponseTextCall(resp) == Raised("TypeError")

\* Variant: a non-200 answer with a JSON body is returned, not raised.
PostResult_Swallow(resp) ==
    IF Json(resp.body).ok THEN Returned(Json(resp.body).val)
    ELSE IF resp.status = 200 THEN Raised("JSONDecodeError")
    ELSE ResponseTextCall(resp)

\* _post, after the request: lines 100-107.
PostResult(resp) ==
    IF resp.status = 200 THEN
        IF Json(resp.body).ok THEN Returned(Json(resp.body).val)
        ELSE Raised("JSONDecodeError")
    ELSE IF Json(resp.body).ok
    THEN BitfinexException(resp.status, resp.reason, Json(resp.body).val)
    ELSE ResponseTextCall(resp)

\* Variant: a 200 answer is returned as its text, unparsed.
GetResult_RawText(resp) ==
    IF resp.status = 200 THEN Returned(PyStr(resp.body))
    ELSE IF Json(resp.body).ok
    THEN BitfinexException(resp.status, resp.reason, Json(resp.body).val)
    ELSE ResponseTextCall(resp)

\* _get, after the request: lines 115-122.
GetResult(resp) ==
    IF resp.status = 200 THEN
        IF Json(resp.body).ok THEN Returned(Json(resp.body).val)
        ELSE Raised("JSONDecodeError")
    ELSE IF Json(resp.body).ok
    THEN BitfinexException(resp.status, resp.reason, Json(resp.body).val)
    ELSE ResponseTextCall(resp)

\* An endpoint method: response = self._get(path); return response.  An
\* exception of _get / _post passes through it.
EndpointResult(o) == o

(* ------------------------------ calls ---------------------------------- *)

\* A new call: a fresh frame, nothing sent, nothing received.
Begin(e, p, body, q, v, kw) ==
    /\ constructed
    /\ pc \in {"idle", "done"}
    /\ calls < MaxCalls
    /\ calls' = calls + 1
    /\ entry' = e
    /\ path' = p
    /\ payload' = body
    /\ params' = q
    /\ verify' = v
    /\ keyword' = kw
    /\ nonce' = Unset
    /\ headers' = NoHeaders
    /\ wire' = NoRequest
    /\ response' = NoResponse
    /\ inner' = NoOutcome
    /\ result' = NoOutcome
    /\ nonceGen' = 0
    /\ hdrBuilt' = 0
    /\ httpCount' = 0
    /\ UNCHANGED <<clientVars, clock, sentNonces>>

\* The caller calls _get(path, **params).
CallGet(p, q) ==
    /\ Begin("_get", p, <<>>, q, FALSE, NoKeyword)
    /\ pc' = "get_send"

\* The caller calls _post(path, payload) or _post(path, payload, verify),
\* possibly with a keyword _post(self, path, payload, verify=False) does not
\* declare: binding the arguments then raises TypeError and no statement runs.
CallPost(p, body, v, kw) ==
    /\ Begin("_post", p, body, <<>>, v, kw)
    /\ pc' = IF kw = NoKeyword THEN "post_nonce" ELSE "unbound"

PostUnbound ==
    /\ pc = "unbound"
    /\ inner' = Raised("TypeError")
    /\ result' = Raised("TypeError")
    /\ pc' = "done"
    /\ UNCHANGED <<clientVars, clock, calls, frameVars, nonce, headers, wire, response,
                   nonceGen, hdrBuilt, httpCount, sentNonces>>

\* platform_status(): path = "v2/platform/status"; self._get(path)
PlatformStatus ==
    /\ Begin("platform_status", <<"v2/platform/status">>, <<>>, <<>>, FALSE, NoKeyword)
    /\ pc' = "get_send"

\* ticker(symbol): path = "v2/ticker/{}".format(symbol); self._get(path)
Ticker(symbol) ==
    /\ Begin("ticker", <<"v2/ticker/">> \o symbol, <<>>, <<>>, FALSE, NoKeyword)
    /\ pc' = "get_send"

\* market_average_price(**kwargs): self._post("v2/calc/trade/avg",
\* json.dumps(kwargs), verify=True)
MarketAveragePrice(kwargs) ==
    /\ Begin("market_average_price", <<"v2/calc/trade/avg">>, JsonDumps(kwargs), <<>>, TRUE, NoKeyword)
    /\ pc' = "post_nonce"

\* def _post(self, path, payload, verify=False)
VerifyDefault == FALSE

\* Variant: wallets_balance leaves verify to the default of _post.
WalletsBalance_DefaultVerify ==
    /\ Begin("wallets_balance", <<"v2/auth/r/wallets">>, JsonDumps(<<>>), <<>>,
             VerifyDefault, NoKeyword)
    /\ pc' = "post_nonce"

\* wallets_balance(): self._post("v2/auth/r/wallets", json.dumps({}), verify=True)
WalletsBalance ==
    /\ Begin("wallets_balance", <<"v2/auth/r/wallets">>, JsonDumps(<<>>), <<>>, TRUE, NoKeyword)
    /\ pc' = "post_nonce"

\* "{}/".format(symbol) if symbol else ""
AddSlash(a) == IF a # <<>> THEN a \o <<"/">> ELSE <<>>

\* str.upper(), word by word.
UpperWord(w) ==
    CASE w = "btc" -> "BTC"
      [] w = "tBTCUSD" -> "TBTCUSD"
      [] OTHER -> w
Upper(text) == [i \in 1..Len(text) |-> UpperWord(text[i])]

\* json.dumps of a str.
DumpsStr(text) == <<"\"">> \o text \o <<"\"">>

\* The path an endpoint method builds from its arguments.
EndpointPath(n, a) ==
    CASE n = "foreign_exchange_rate" -> <<"v2/calc/fx">>
      [] n = "active_orders" -> <<"v2/auth/r/orders/">> \o a[1]
      [] n = "orders_history" -> <<"v2/auth/r/orders/">> \o a[1] \o <<"/hist">>
      [] n = "order_trades" ->
            <<"v2/auth/r/order/">> \o a[1] \o <<":">> \o a[2] \o <<"/trades">>
      [] n = "trades_history" -> <<"v2/auth/r/trades/">> \o a[1] \o <<"/hist">>
      [] n = "active_positions" -> <<"v2/auth/r/positions">>
      [] n = "funding_offers" -> <<"v2/auth/r/funding/offers/">> \o a[1]
      [] n = "funding_offers_history" ->
            <<"v2/auth/r/funding/offers/">> \o AddSlash(a[1]) \o <<"hist">>
      [] n = "funding_loans" -> <<"v2/auth/r/funding/loans/">> \o a[1]
      [] n = "funding_loans_history" ->
            <<"v2/auth/r/funding/loans/">> \o AddSlash(a[1]) \o <<"hist">>
      [] n = "funding_credits" -> <<"v2/auth/r/funding/credits/">> \o a[1]
      [] n = "funding_credits_history" ->
            <<"v2/auth/r/funding/credits/">> \o AddSlash(a[1]) \o <<"hist">>
      [] n = "funding_trades" ->
            <<"v2/auth/r/funding/trades/">> \o AddSlash(a[1]) \o <<"hist">>
      [] n = "margin_info" -> <<"v2/auth/r/info/margin/">> \o a[1]
      [] n = "funding_info" -> <<"v2/auth/r/info/funding/">> \o a[1]
      [] n = "movements" ->
            <<"v2/auth/r/movements/">> \o AddSlash(Upper(a[1])) \o <<"hist">>
      [] n = "performance" -> <<"v2/auth/r/stats/perf:">> \o a[1] \o <<"/hist">>
      [] n = "alert_list" -> <<"v2/auth/r/alerts">>
      [] n = "alert_set" -> <<"v2/auth/w/alert/set">>
      [] n = "alert_delete" ->
            <<"v2/auth/w/alert/price:">> \o a[1] \o <<":">> \o a[2] \o <<"/del">>
      [] n = "calc_available_balance" -> <<"v2/auth/calc/order/avail">>
      [] n = "ledgers" ->
            <<"v2/auth/r/ledgers/">> \o AddSlash(Upper(a[1])) \o <<"hist">>
      [] n = "user_settings_read" -> <<"v2/auth/r/settings">>

\* raw_body = json.dumps(body) of an endpoint method.
EndpointBody(n, a, k) ==
    CASE n \in {"foreign_exchange_rate"} \cup HistoryEndpoints \cup SymbolHistoryEndpoints ->
            JsonDumps(k)
      [] n = "alert_list" -> JsonDumps(<< <<"type", "price">> >>)
      [] n = "alert_set" ->
            <<"{">> \o DumpsStr(<<"type">>) \o <<":">> \o DumpsStr(a[1]) \o <<",">>
                \o DumpsStr(<<"symbol">>) \o <<":">> \o DumpsStr(a[2]) \o <<",">>
                \o DumpsStr(<<"price">>) \o <<":">> \o DumpsStr(a[3]) \o <<"}">>
      [] n = "calc_available_balance" ->
            <<"{">> \o DumpsStr(<<"symbol">>) \o <<":">> \o DumpsStr(a[1]) \o <<",">>
                \o DumpsStr(<<"dir">>) \o <<":">> \o DumpsStr(a[2]) \o <<",">>
                \o DumpsStr(<<"rate">>) \o <<":">> \o DumpsStr(a[3]) \o <<",">>
                \o DumpsStr(<<"type">>) \o <<":">> \o DumpsStr(a[4]) \o <<"}">>
      [] n = "user_settings_read" ->
            <<"{">> \o DumpsStr(<<"keys">>) \o <<":">> \o <<"[">>
                \o DumpsStr(<<"api:">> \o a[1]) \o <<"]">> \o <<"}">>
      [] OTHER -> JsonDumps(<<>>)

\* The other posting endpoint methods: body = ...; raw_body = json.dumps(body);
\* path = ...; self._post(path, raw_body, verify=True)
PostEndpoint(c) ==
    /\ Begin(c.name, EndpointPath(c.name, c.args), EndpointBody(c.name, c.args, c.kwargs),
             <<>>, TRUE, NoKeyword)
    /\ pc' = "post_nonce"

\* _get / _post is left with outcome o: a direct caller has it at once, an
\* endpoint method has yet to hand it on.
Finish(o) ==
    /\ inner' = o
    /\ IF entry \in DirectEntries
       THEN result' = o /\ pc' = "done"
       ELSE result' = result /\ pc' = "endpoint_return"

(* ------------------------------ _post ---------------------------------- *)

\* Variant: the nonce of the previous request is kept and used again.
PostNonce_Cached ==
    /\ pc = "post_nonce"
    /\ nonce' = IF sentNonces # <<>> THEN sentNonces[Len(sentNonces)] ELSE Nonce
    /\ nonceGen' = IF sentNonces # <<>> THEN nonceGen ELSE nonceGen + 1
    /\ pc' = "post_headers"
    /\ UNCHANGED <<clientVars, clock, calls, frameVars, headers, wire, response,
                   inner, result, hdrBuilt, httpCount, sentNonces>>

\* nonce = self._nonce()
PostNonce ==
    /\ pc = "post_nonce"
    /\ nonce' = Nonce
    /\ nonceGen' = nonceGen + 1
    /\ pc' = "post_headers"
    /\ UNCHANGED <<clientVars, clock, calls, frameVars, headers, wire, response,
                   inner, result, hdrBuilt, httpCount, sentNonces>>

\* headers = self._headers(path, nonce, payload)
PostHeaders ==
    /\ pc = "post_headers"
    /\ IF CanSign
       THEN /\ headers' = SignedHeaders(path, nonce, payload)
            /\ hdrBuilt' = hdrBuilt + 1
            /\ pc' = "post_send"
            /\ UNCHANGED <<inner, result>>
       ELSE /\ Finish(Raised("AttributeError"))
            /\ UNCHANGED <<headers, hdrBuilt>>
    /\ UNCHANGED <<clientVars, clock, calls, frameVars, nonce, wire, response,
                   nonceGen, httpCount, sentNonces>>

\* requests.post(...): the request leaves; the call blocks until an answer
\* or a transport error (no timeout is given).
PostSend ==
    /\ pc = "post_send"
    /\ wire' = PostRequest(base_url \o path, headers, payload, verify)
    /\ httpCount' = httpCount + 1
    /\ sentNonces' = Append(sentNonces, headers["bfx-nonce"])
    /\ pc' = "post_wait"
    /\ UNCHANGED <<clientVars, clock, calls, frameVars, nonce, headers, response,
                   inner, result, nonceGen, hdrBuilt>>

\* if response.status_code == 200: ... else: ... raise BitfinexException(...)
PostNormalize ==
    /\ pc = "post_normalize"
    /\ Finish(PostResult(response))
    /\ UNCHANGED <<clientVars, clock, calls, frameVars, nonce, headers, wire, response,
                   nonceGen, hdrBuilt, httpCount, sentNonces>>

(* ------------------------------- _get ---------------------------------- *)

\* url = self.base_url + path; requests.get(url, timeout=TIMEOUT, params=params)
GetSend ==
    /\ pc = "get_send"
    /\ wire' = GetRequest(base_url \o path, params)
    /\ httpCount' = httpCount + 1
    /\ pc' = "get_wait"
    /\ UNCHANGED <<clientVars, clock, calls, frameVars, nonce, headers, response,
                   inner, result, nonceGen, hdrBuilt, sentNonces>>

GetNormalize ==
    /\ pc = "get_normalize"
    /\ Finish(GetResult(response))
    /\ UNCHANGED <<clientVars, clock, calls, frameVars, nonce, headers, wire, response,
                   nonceGen, hdrBuilt, httpCount, sentNonces>>

(* ------------------------ endpoint methods, end ------------------------ *)

\* return response
EndpointReturn ==
    /\ pc = "endpoint_return"
    /\ result' = EndpointResult(inner)
    /\ pc' = "done"
    /\ UNCHANGED <<clientVars, clock, calls, frameVars, nonce, headers, wire, response,
                   inner, nonceGen, hdrBuilt, httpCount, sentNonces>>

(* ---------------------------- environment ------------------------------ *)

\* The exchange answers the request on the wire.
Respond(r) ==
    /\ pc \in {"get_wait", "post_wait"}
    /\ response' = r
    /\ pc' = IF pc = "get_wait" THEN "get_normalize" ELSE "post_normalize"
    /\ UNCHANGED <<clientVars, clock, calls, frameVars, nonce, headers, wire,
                   inner, result, nonceGen, hdrBuilt, httpCount, sentNonces>>

\* requests raises: connection refused, or the timeout of a GET elapsed.
TransportFail(e) ==
    /\ pc \in {"get_wait", "post_wait"}
    /\ e \in TransportErrors(wire)
    /\ Finish(TransportOutcome(e))
    /\ UNCHANGED <<clientVars, clock, calls, frameVars, nonce, headers, wire, response,
                   nonceGen, hdrBuilt, httpCount, sentNonces>>

\* The wall clock advances by one tick.
Tick ==
    /\ clock < StartTime + MaxTicks
    /\ clock' = clock + 1
    /\ UNCHANGED <<clientVars, calls, pc, frameVars, nonce, headers, wire, response,
                   inner, result, nonceGen, hdrBuilt, httpCount, sentNonces>>

Next ==
    \/ \E p \in GetPaths, q \in ParamSets : CallGet(p, q)
    \/ \E p \in PostPaths, body \in Payloads, v \in {VerifyDefault, TRUE},
          kw \in ExtraKeywords :
           CallPost(p, body, v, kw)
    \/ PostUnbound
    \/ PlatformStatus
    \/ \E symbol \in Symbols : Ticker(symbol)
    \/ \E kwargs \in Kwargs : MarketAveragePrice(kwargs)
    \/ WalletsBalance
    \/ \E c \in PostEndpointCalls : PostEndpoint(c)
    \/ PostNonce
    \/ PostHeaders
    \/ PostSend
    \/ PostNormalize
    \/ GetSend
    \/ GetNormalize
    \/ EndpointReturn
    \/ \E r \in Responses : Respond(r)
    \/ \E e \in {"ConnectionError", "Timeout"} : TransportFail(e)
    \/ Tick

Spec == Init /\ [][Next]_vars

(* ------------------------------ claims --------------------------------- *)

AuthHeaders == {"bfx-nonce", "bfx-apikey", "bfx-signature"}

\* _get / _post received a response and has finished normalising it.
Normalized == response # NoResponse /\ inner.kind # "none"

\* The path of the request on the wire: what follows the base URL.
WirePath == SubSeq(wire.url, Len(base_url) + 1, Len(wire.url))

\* C1: the nonces one client sends are strictly increasing, also for two
\* requests made within one clock tick.  Stated for positive multipliers, the
\* case most favourable to the claim.
C1_NonceStrictlyIncreasing ==
    nonce_multiplier.val > 0 =>
        \A i, j \in 1..Len(sentNonces) :
            i < j => NonceValue(sentNonces[i]) < NonceValue(sentNonces[j])

\* C2: a non-200 response with a JSON body makes _get / _post raise
\* BitfinexException(status code, reason, parsed body); the caller gets that
\* exception and no value.
C2_JsonErrorRaisesApiError ==
    (Normalized /\ response.status # 200 /\ Json(response.body).ok) =>
        /\ inner = [kind |-> "raise", exc |-> "BitfinexException",
                    status |-> response.status, reason |-> response.reason,
                    content |-> Json(response.body).val]
        /\ pc = "done" => result = inner

C2_Witness ==
    /\ pc = "done"
    /\ entry = "wallets_balance"
    /\ response = [status |-> 500, reason |-> "Internal Server Error",
                   body |-> <<"{", "\"", "error", "\"", ":", "\"", "nope", "\"", "}">>]
    /\ result.exc = "BitfinexException"
    /\ result.status = 500
    /\ result.content = [obj |-> << <<[str |-> <<"error">>], [str |-> <<"nope">>]>> >>]

\* C3: a non-200 response whose body is no JSON makes _get / _post raise
\* BitfinexException(status code, reason, raw text of the body).
C3_TextFallbackRaisesApiError ==
    (Normalized /\ response.status # 200 /\ ~Json(response.body).ok) =>
        inner = [kind |-> "raise", exc |-> "BitfinexException",
                 status |-> response.status, reason |-> response.reason,
                 content |-> [str |-> response.body]]

\* C4: a 200 response with a JSON body makes _get / _post return the parsed
\* value, and the endpoint method returns that same value.
C4_OkReturnsParsedJson ==
    (Normalized /\ response.status = 200 /\ Json(response.body).ok) =>
        /\ inner = [kind |-> "return", exc |-> "", status |-> 0, reason |-> "",
                    content |-> Json(response.body).val]
        /\ pc = "done" => result = inner

C4_Witness ==
    /\ pc = "done"
    /\ entry = "platform_status"
    /\ response.status = 200
    /\ response.body = <<"[", "\"", "1", "\"", "]">>
    /\ result.kind = "return"
    /\ result.content = [arr |-> <<[str |-> <<"1">>]>>]

\* C5: a call through _get generates no nonce, builds no signed headers and
\* sends its GET without bfx-nonce, bfx-apikey and bfx-signature, with or
\* without credentials on the client.
C5_GetIsUnauthenticated ==
    /\ entry \in GetEntries =>
        /\ nonceGen = 0
        /\ hdrBuilt = 0
        /\ nonce = Unset
        /\ headers = NoHeaders
    /\ wire.method = "GET" => DOMAIN wire.headers \cap AuthHeaders = {}

C5_Witness ==
    /\ entry = "_get"
    /\ wire.method = "GET"
    /\ key # None
    /\ secret # None
    /\ pc = "done"

\* C6: the POST on the wire carries bfx-signature = hex HMAC-SHA384, keyed by
\* the secret, of "/api/" + path + nonce + body, with the path of its own URL,
\* its own payload and the nonce of its own bfx-nonce header; bfx-apikey is the
\* client's key and content-type is application/json.
C6_SignatureCoversRequest ==
    wire.method = "POST" =>
        /\ wire.url = base_url \o path
        /\ wire.data = payload
        /\ DOMAIN wire.headers = AuthHeaders \cup {"content-type"}
        /\ wire.headers["bfx-signature"] =
               [hmac_sha384_hex |->
                   << [utf8 |-> secret],
                      [utf8 |-> <<"/api/">> \o WirePath \o wire.headers["bfx-nonce"]
                                    \o wire.data] >>]
        /\ wire.headers["bfx-apikey"] = key
        /\ wire.headers["content-type"] = "application/json"

C6_Witness ==
    /\ wire.method = "POST"
    /\ entry = "market_average_price"
    /\ wire.data # <<"{", "}">>
    /\ key = "key"
    /\ NonceValue(wire.headers["bfx-nonce"]) = 2 * (StartTime + 1)

\* C7: in a _post call the nonce is generated exactly once, before the headers
\* are built and before the request is sent; the headers are built in that
\* call, from that nonce, and a call starts with no nonce and no headers of an
\* earlier call.
C7_NonceOncePerPost ==
    /\ nonceGen <= 1
    /\ hdrBuilt <= 1
    /\ pc = "post_nonce" => nonceGen = 0 /\ nonce = Unset /\ headers = NoHeaders
    /\ pc = "post_headers" =>
           nonceGen = 1 /\ hdrBuilt = 0 /\ httpCount = 0 /\ headers = NoHeaders
    /\ pc = "post_send" => nonceGen = 1 /\ hdrBuilt = 1 /\ httpCount = 0
    /\ headers # NoHeaders => nonceGen = 1 /\ headers["bfx-nonce"] = nonce
    /\ wire.method = "POST" =>
           nonceGen = 1 /\ hdrBuilt = 1 /\ httpCount = 1 /\ wire.headers = headers

C7_Witness ==
    /\ calls = 2
    /\ wire.method = "POST"
    /\ Len(sentNonces) = 2
    /\ sentNonces[1] # sentNonces[2]
    /\ pc = "done"

\* C8 as stated: a _post call made with signing turned off sends its POST to
\* base_url + path with the body as payload, generates no nonce and sends none
\* of bfx-nonce, bfx-apikey, bfx-signature.
C8_UnsignedModeSupported ==
    (entry = "_post" /\ keyword = "signed=False" /\ pc = "done") =>
        /\ wire.method = "POST"
        /\ wire.url = base_url \o path
        /\ wire.data = payload
        /\ nonceGen = 0
        /\ DOMAIN wire.headers \cap AuthHeaders = {}

\* C8 amended: _post has the signed mode only.  Every POST it sends goes to
\* base_url + path with the body as payload and carries bfx-nonce, bfx-apikey
\* and bfx-signature, from a nonce generated in that call; a call that passes
\* a keyword to turn signing off raises TypeError with no nonce generated and
\* nothing sent.
C8_PostAlwaysSigned ==
    /\ wire.method = "POST" =>
        /\ wire.url = base_url \o path
        /\ wire.data = payload
        /\ AuthHeaders \subseteq DOMAIN wire.headers
        /\ nonceGen = 1
    /\ keyword # NoKeyword =>
        /\ wire = NoRequest
        /\ nonceGen = 0
        /\ pc = "done" => result = Raised("TypeError")

C8_Witness ==
    /\ calls = 2
    /\ pc = "done"
    /\ entry = "_post"
    /\ keyword = "signed=False"
    /\ result.exc = "TypeError"
    /\ Len(sentNonces) = 1

\* C9: a call issues at most one HTTP request whatever its outcome, and a
\* transport failure reaches the caller as the transport's own exception:
\* it is no BitfinexException and no returned value.
C9_NoRetryTransportErrorPropagates ==
    /\ httpCount <= 1
    /\ wire # NoRequest => httpCount = 1
    /\ (wire # NoRequest /\ response = NoResponse /\ inner.kind # "none") =>
        /\ inner.kind = "raise"
        /\ inner.exc \in {"ConnectionError", "Timeout"}
        /\ pc = "done" => result = inner

C9_Witness ==
    /\ pc = "done"
    /\ entry = "ticker"
    /\ httpCount = 1
    /\ response = NoResponse
    /\ result.exc = "Timeout"

\* C10: on a client without a secret a _post call raises before any HTTP
\* request is sent, and builds no headers and no signature.
C10_MissingSecretFailsFast ==
    (secret = None /\ entry \in PostEntries) =>
        /\ httpCount = 0
        /\ wire = NoRequest
        /\ hdrBuilt = 0
        /\ headers = NoHeaders
        /\ inner.kind \in {"none", "raise"}
        /\ pc = "done" => result.kind = "raise" /\ result.exc \in {"AttributeError", "TypeError"}
        /\ (pc = "done" /\ keyword = NoKeyword) => result = Raised("AttributeError")

C10_Witness ==
    /\ secret = None
    /\ key = "key"
    /\ entry = "wallets_balance"
    /\ pc = "done"
    /\ result = Raised("AttributeError")
    /\ nonceGen = 1

\* C11 as stated, its first half: a constructed client holds a multiplier
\* that is a float and positive.
C11_MultiplierPositiveFloat ==
    constructed => nonce_multiplier.float /\ nonce_multiplier.val > 0

\* C11 amended: a constructed client holds a multiplier that is a float, of
\* any sign (only a non-float multiplier yields no client), and no step of
\* any call changes the multiplier, the key, the secret or the base URL.
C11_FloatMultiplierFieldsFixed ==
    /\ [](constructed =>
            /\ nonce_multiplier.float
            /\ base_url = <<"https", "://", "api.bitfinex.com", "/">>)
    /\ [][ /\ constructed' = constructed
           /\ nonce_multiplier' = nonce_multiplier
           /\ key' = key
           /\ secret' = secret
           /\ base_url' = base_url ]_vars

C11_Witness ==
    /\ constructed
    /\ nonce_multiplier.float
    /\ nonce_multiplier.val < 0
    /\ key = "key"
    /\ secret = "abc"
    /\ calls = 2
    /\ pc = "done"
    /\ wire.method = "POST"
    /\ NonceValue(wire.headers["bfx-nonce"]) = 0 - (StartTime + 1)

\* C12: every POST issued through an endpoint method is sent with
\* verify=True, the argument each endpoint method hands to _post, although
\* _post called without the argument sends verify=False.
C12_EndpointPostsVerifyTls ==
    /\ (entry \in PostEntries \ {"_post"}) =>
        /\ verify = TRUE
        /\ wire.method = "POST" => wire.verify = TRUE
    /\ (entry = "_post" /\ wire.method = "POST") => wire.verify = verify

C12_Witness ==
    /\ entry = "wallets_balance"
    /\ wire.method = "POST"
    /\ wire.verify = TRUE
    /\ wire.url = <<"https", "://", "api.bitfinex.com", "/", "v2/auth/r/wallets">>
    /\ pc = "done"
    /\ result.kind = "return"

=============================================================================
